---- MODULE Spec2Model ----
(***************************************************************************)
(* The recognition session of the transcription client, the hook           *)
(* useSpeechRecognition, as a state machine.                               *)
(*                                                                         *)
(* One step of the model is one callback of the event loop run to its end  *)
(* together with the render that follows it: a user command (start, stop,  *)
(* clear, switchLanguage, toggleEnhancedMode), a recognizer event          *)
(* (onstart, onresult, onerror, onend), a timer callback, or the arrival   *)
(* of the response of a background request.                                *)
(*                                                                         *)
(* A callback reads the state cells through the closure it was created in. *)
(* The handlers of a recognizer are created once, by initializeRecognition,*)
(* and keep the transcript, currentLanguage and enhancedMode of that       *)
(* render; switchLanguage is re-created only when isRecording changes and  *)
(* keeps the startRecording of that render; the callbacks of a background  *)
(* request follow the renders while the request is the latest one of its   *)
(* kind and keep the last render they saw once a newer request replaces    *)
(* it.  These captured values are part of the state below.                 *)
(*                                                                         *)
(* Text is a sequence of one-character strings.  A confidence is kept in   *)
(* hundredths (0.98 is 98).  The titles of notifications and the names of  *)
(* languages are written without their accents.                            *)
(***************************************************************************)
EXTENDS Integers, Sequences, FiniteSets, TLC

(* ------------------------------ bounds --------------------------------- *)

MaxRecognizers == 2      \* recognizers created in one run
MaxTranscriptLen == 22   \* longest transcript a recognizer event may publish
MaxRecordingTime == 2    \* ticks of the elapsed-time timer that are counted
MaxInFlight == 2         \* background requests of one kind awaiting a response
MaxRestarts == 1         \* delayed restarts of switchLanguage that are pending
MaxLanguages == 3        \* entries of detectedLanguages
MaxSteps == 5            \* steps of one run
MaxWords == 3            \* words of a text given to the keyword heuristic
MaxSessions == 2         \* sessions the store holds
MaxAnalyses == 2         \* analyses the store holds

(* ------------------------------- text ---------------------------------- *)

RECURSIVE Repeat(_, _)
Repeat(s, n) == IF n = 0 THEN <<>> ELSE s \o Repeat(s, n - 1)

RemoveAt(s, i) == SubSeq(s, 1, i - 1) \o SubSeq(s, i + 1, Len(s))

Range(s) == {s[i] : i \in DOMAIN s}

IsSpace(c) == c = " "

RECURSIVE TrimStart(_)
TrimStart(s) ==
    IF s # <<>> /\ IsSpace(Head(s)) THEN TrimStart(Tail(s)) ELSE s

RECURSIVE TrimEnd(_)
TrimEnd(s) ==
    IF s # <<>> /\ IsSpace(s[Len(s)]) THEN TrimEnd(SubSeq(s, 1, Len(s) - 1)) ELSE s

Trim(s) == TrimEnd(TrimStart(s))

\* text.split(/\s+/): the pieces between maximal runs of white space; the
\* empty text gives one empty piece.
RECURSIVE SplitWs(_, _)
SplitWs(s, cur) ==
    IF s = <<>> THEN <<cur>>
    ELSE IF IsSpace(Head(s)) THEN <<cur>> \o SplitWs(TrimStart(s), <<>>)
    ELSE SplitWs(Tail(s), Append(cur, Head(s)))

CountWords(text) ==
    LET words == SelectSeq(SplitWs(Trim(text), <<>>), LAMBDA word : Len(word) > 0)
    IN  Len(words)

(* ---------------------------- input domains ---------------------------- *)

ShortText == <<"a">>
Text20 == Repeat(<<"a", "b", " ">>, 6) \o <<"a", "b">>
CorrectedText == <<"A", "b", ".">>

Final(text) == [transcript |-> text, isFinal |-> TRUE]
Interim(text) == [transcript |-> text, isFinal |-> FALSE]

\* the results of one event from resultIndex on: interim text only, a
\* finalized text of 1, of 20 and (in two results) of 21 characters, and a
\* finalized text followed by interim text
ResultEvents ==
    { <<Interim(ShortText)>>,
      <<Final(ShortText)>>,
      <<Final(Text20)>>,
      <<Final(ShortText), Final(Text20)>>,
      <<Final(Text20), Final(ShortText)>>,
      <<Final(ShortText), Interim(ShortText)>> }

RecognitionErrors == {"aborted", "network"}

\* the three codes switchLanguage names and one it does not
LanguageCodes == {"pt-BR", "en-US", "es-ES", "fr-FR"}

AudioSamples == {0, 50}

DetectReplies ==
    { [language |-> "English (US)", confidence |-> 95, languageCode |-> "en-US"],
      [language |-> "Erro na deteccao", confidence |-> 0, languageCode |-> "unknown"] }

(* ------------------------------- state --------------------------------- *)

VARIABLES
    isRecording, transcript, detectedLanguage, confidence, audioLevel,
    recordingTime, wordCount, languageCount, currentLanguage, enhancedMode,
    detectedLanguages,
    recognitionRef,          \* id of the recognizer held, 0 for null
    timeIntervalRef,         \* id of the timer held, 0 for null
    audioLevelIntervalRef,
    switchClosure,           \* the render switchLanguage was created in
    supported,               \* the platform offers a recognizer
    recognizers,             \* recognizers that may still deliver an event
    nextId,
    timeTimers,              \* elapsed-time intervals that are running
    audioTimers,             \* audio-level intervals that are running
    restartTimeouts,         \* setTimeout callbacks of switchLanguage
    detectRequests,          \* detect-language requests awaiting a response
    enhanceRequests,         \* enhancement requests awaiting a response
    steps,                   \* steps taken so far
    toast,                   \* the notification of the last step, or "none"
    lastOp,                  \* the last step and its input
    heuristicText,           \* the text given to the keyword heuristic
    services,                \* the services module the routes are linked with
    exchange,                \* the last request served and its response
    sessions,                \* ids of the sessions the store holds
    analyses,                \* number of analyses the store holds
    lastAnalysis,            \* the analysis the question panel displays
    notice,                  \* the notification of the question panel
    analyzing                \* the question of the panel awaiting its response

cells == <<isRecording, transcript, detectedLanguage, confidence, audioLevel,
           recordingTime, wordCount, languageCount, currentLanguage,
           enhancedMode, detectedLanguages>>

refs == <<recognitionRef, timeIntervalRef, audioLevelIntervalRef>>

platform == <<supported, recognizers, nextId, timeTimers, audioTimers,
              restartTimeouts, detectRequests, enhanceRequests>>

\* the recognition session
session == <<cells, refs, switchClosure, platform, steps, toast, lastOp>>

\* the server: its services module, its store and the exchange it served
server == <<services, exchange, sessions, analyses>>

\* the question panel (the component AiAnalysis)
panel == <<lastAnalysis, notice, analyzing>>

vars == <<session, heuristicText, server, panel>>

\* what stop() is specified over: the session state without notifications
sessionState == <<isRecording, transcript, wordCount, recordingTime,
                  languageCount, detectedLanguages, detectedLanguage,
                  confidence, currentLanguage, enhancedMode, audioLevel,
                  recognitionRef, timeIntervalRef, audioLevelIntervalRef,
                  recognizers, timeTimers, audioTimers>>

\* lastOp: the step (op), the recognizer or request it concerns (rec), its
\* text input (final, interim), its other input (arg) and, for clear, what
\* the step found (before)
NoOp == [op |-> "init", rec |-> 0, final |-> <<>>, interim |-> <<>>, arg |-> "",
         before |-> <<>>]

Op(name) == [NoOp EXCEPT !.op = name]

\* the values a callback created in the current render reads
Render == [transcript |-> transcript, currentLanguage |-> currentLanguage,
           enhancedMode |-> enhancedMode]

SessionInit ==
    /\ isRecording = FALSE
    /\ transcript = <<>>
    /\ detectedLanguage = "Portugues (BR)"
    /\ confidence = 98
    /\ audioLevel = 0
    /\ recordingTime = 0
    /\ wordCount = 0
    /\ languageCount = 1
    /\ currentLanguage = "pt-BR"
    /\ enhancedMode = TRUE
    /\ detectedLanguages = <<"pt-BR">>
    /\ recognitionRef = 0
    /\ timeIntervalRef = 0
    /\ audioLevelIntervalRef = 0
    /\ switchClosure = Render
    /\ supported \in BOOLEAN
    /\ recognizers = <<>>
    /\ nextId = 1
    /\ timeTimers = {}
    /\ audioTimers = {}
    /\ restartTimeouts = <<>>
    /\ detectRequests = <<>>
    /\ enhanceRequests = <<>>
    /\ steps = 0
    /\ toast = "none"
    /\ lastOp = NoOp

\* every step is counted; a run has at most MaxSteps steps
Counted == steps < MaxSteps /\ steps' = steps + 1

(* ----------------------- background requests --------------------------- *)

\* The callbacks of the latest request of a kind (live) are replaced at each
\* render, so they read the state of the latest render (seen); a request that
\* a newer one has replaced keeps the callbacks it had.
Follow(requests, value) ==
    [i \in DOMAIN requests |->
        IF requests[i].live THEN [requests[i] EXCEPT !.seen = value]
                            ELSE requests[i]]

Superseded(requests) ==
    [i \in DOMAIN requests |-> [requests[i] EXCEPT !.live = FALSE]]

(* --------------------------- start and stop ---------------------------- *)

\* initializeRecognition in the render cl: the recognizer and its handlers
initializeRecognition(cl) ==
    [lang |-> cl.currentLanguage,
     transcript |-> cl.transcript,
     currentLanguage |-> cl.currentLanguage,
     enhancedMode |-> cl.enhancedMode,
     status |-> "starting",
     stopped |-> FALSE]

\* startRecording without the return on a missing recognizer
startRecordingUnchecked(cl) ==
    /\ nextId <= MaxRecognizers
    /\ recognizers' = recognizers @@ (nextId :> initializeRecognition(cl))
    /\ recognitionRef' = nextId
    /\ recordingTime' = 0
    /\ timeIntervalRef' = nextId
    /\ timeTimers' = timeTimers \cup {nextId}
    /\ audioLevelIntervalRef' = nextId
    /\ audioTimers' = audioTimers \cup {nextId}
    /\ nextId' = nextId + 1
    /\ toast' = IF supported THEN "none" ELSE "Nao Suportado"
    /\ UNCHANGED <<isRecording, transcript, detectedLanguage, confidence,
                   audioLevel, wordCount, languageCount, currentLanguage,
                   enhancedMode, detectedLanguages>>

\* startRecording of the render cl.  start() on a recognizer just built does
\* not throw, so the catch branch is not taken.
startRecording(cl) ==
    IF ~supported
    THEN /\ toast' = "Nao Suportado"
         /\ UNCHANGED <<cells, refs, recognizers, nextId, timeTimers, audioTimers>>
    ELSE /\ nextId <= MaxRecognizers
         /\ recognizers' = recognizers @@ (nextId :> initializeRecognition(cl))
         /\ recognitionRef' = nextId
         /\ recordingTime' = 0
         /\ timeIntervalRef' = nextId
         /\ timeTimers' = timeTimers \cup {nextId}
         /\ audioLevelIntervalRef' = nextId
         /\ audioTimers' = audioTimers \cup {nextId}
         /\ nextId' = nextId + 1
         /\ toast' = "none"
         /\ UNCHANGED <<isRecording, transcript, detectedLanguage, confidence,
                        audioLevel, wordCount, languageCount, currentLanguage,
                        enhancedMode, detectedLanguages>>

Start ==
    /\ startRecording(Render)
    /\ Counted
    /\ lastOp' = [Op("start") EXCEPT !.rec = IF supported THEN nextId ELSE 0]
    /\ UNCHANGED <<switchClosure, supported, restartTimeouts, detectRequests,
                   enhanceRequests>>

\* recognition.stop() on the recognizer held
StopRecognizer(recs, ref) ==
    IF ref # 0 /\ ref \in DOMAIN recs
    THEN [recs EXCEPT ![ref].stopped = TRUE]
    ELSE recs

\* clearInterval(ref) when a timer is held
ClearHeld(timers, ref) == IF ref # 0 THEN timers \ {ref} ELSE timers

\* stopRecording with its three releases chained by else
stopRecordingElseIf ==
    /\ IF recognitionRef # 0
       THEN /\ recognizers' = StopRecognizer(recognizers, recognitionRef)
            /\ recognitionRef' = 0
            /\ UNCHANGED <<timeTimers, timeIntervalRef, audioTimers,
                           audioLevelIntervalRef>>
       ELSE IF timeIntervalRef # 0
       THEN /\ timeTimers' = ClearHeld(timeTimers, timeIntervalRef)
            /\ timeIntervalRef' = 0
            /\ UNCHANGED <<recognizers, recognitionRef, audioTimers,
                           audioLevelIntervalRef>>
       ELSE /\ audioTimers' = ClearHeld(audioTimers, audioLevelIntervalRef)
            /\ audioLevelIntervalRef' = 0
            /\ UNCHANGED <<recognizers, recognitionRef, timeTimers,
                           timeIntervalRef>>
    /\ audioLevel' = 0
    /\ toast' = "Gravacao Finalizada"

stopRecording ==
    /\ recognizers' = StopRecognizer(recognizers, recognitionRef)
    /\ recognitionRef' = 0
    /\ timeTimers' = ClearHeld(timeTimers, timeIntervalRef)
    /\ timeIntervalRef' = 0
    /\ audioTimers' = ClearHeld(audioTimers, audioLevelIntervalRef)
    /\ audioLevelIntervalRef' = 0
    /\ audioLevel' = 0
    /\ toast' = "Gravacao Finalizada"

Stop ==
    /\ stopRecording
    /\ Counted
    /\ lastOp' = [Op("stop") EXCEPT !.arg = IF lastOp.op = "stop" THEN "again"
                                                                ELSE ""]
    /\ UNCHANGED <<isRecording, transcript, detectedLanguage, confidence,
                   recordingTime, wordCount, languageCount, currentLanguage,
                   enhancedMode, detectedLanguages, switchClosure, supported,
                   nextId, restartTimeouts, detectRequests, enhanceRequests>>

(* --------------------------- other commands ---------------------------- *)

\* clear() without the reset of detectedLanguages
ClearKeepsLanguages ==
    /\ transcript' = <<>>
    /\ wordCount' = 0
    /\ recordingTime' = 0
    /\ languageCount' = 1
    /\ detectedLanguage' = "Portugues (BR)"
    /\ confidence' = 98
    /\ enhanceRequests' = Follow(enhanceRequests, transcript')
    /\ toast' = "none"
    /\ Counted
    /\ lastOp' = [Op("clear") EXCEPT !.before =
                    [transcript |-> transcript, wordCount |-> wordCount,
                     recordingTime |-> recordingTime,
                     detectedLanguages |-> detectedLanguages]]
    /\ UNCHANGED <<isRecording, audioLevel, currentLanguage, enhancedMode, refs,
                   switchClosure, supported, recognizers, nextId, timeTimers,
                   audioTimers, restartTimeouts, detectedLanguages,
                   detectRequests>>

\* clear() that also drops the enhancement requests awaiting a response
ClearCancelsRequests ==
    /\ transcript' = <<>>
    /\ wordCount' = 0
    /\ recordingTime' = 0
    /\ languageCount' = 1
    /\ detectedLanguage' = "Portugues (BR)"
    /\ confidence' = 98
    /\ detectedLanguages' = <<"pt-BR">>
    /\ detectRequests' = Follow(detectRequests, detectedLanguages')
    /\ enhanceRequests' = <<>>
    /\ toast' = "none"
    /\ Counted
    /\ lastOp' = [Op("clear") EXCEPT !.before =
                    [transcript |-> transcript, wordCount |-> wordCount,
                     recordingTime |-> recordingTime,
                     detectedLanguages |-> detectedLanguages]]
    /\ UNCHANGED <<isRecording, audioLevel, currentLanguage, enhancedMode, refs,
                   switchClosure, supported, recognizers, nextId, timeTimers,
                   audioTimers, restartTimeouts>>

Clear ==
    /\ transcript' = <<>>
    /\ wordCount' = 0
    /\ recordingTime' = 0
    /\ languageCount' = 1
    /\ detectedLanguage' = "Portugues (BR)"
    /\ confidence' = 98
    /\ detectedLanguages' = <<"pt-BR">>
    /\ detectRequests' = Follow(detectRequests, detectedLanguages')
    /\ enhanceRequests' = Follow(enhanceRequests, transcript')
    /\ toast' = "none"
    /\ Counted
    /\ lastOp' = [Op("clear") EXCEPT !.before =
                    [transcript |-> transcript, wordCount |-> wordCount,
                     recordingTime |-> recordingTime,
                     detectedLanguages |-> detectedLanguages]]
    /\ UNCHANGED <<isRecording, audioLevel, currentLanguage, enhancedMode, refs,
                   switchClosure, supported, recognizers, nextId, timeTimers,
                   audioTimers, restartTimeouts>>

DisplayName(langCode) ==
    CASE langCode = "pt-BR" -> "Portugues (BR)"
      [] langCode = "en-US" -> "English (US)"
      [] langCode = "es-ES" -> "Espanol (ES)"
      [] OTHER -> "Portugues (BR)"

\* setTimeout(() => startRecording(), 500): the startRecording of the render
\* switchLanguage was created in
SwitchLanguage(langCode) ==
    /\ currentLanguage' = langCode
    /\ detectedLanguage' = DisplayName(langCode)
    /\ IF isRecording
       THEN /\ Len(restartTimeouts) < MaxRestarts
            /\ stopRecording
            /\ restartTimeouts' = Append(restartTimeouts, switchClosure)
       ELSE /\ toast' = "none"
            /\ UNCHANGED <<audioLevel, refs, recognizers, timeTimers,
                           audioTimers, restartTimeouts>>
    /\ Counted
    /\ lastOp' = [Op("switchLanguage") EXCEPT !.arg = langCode]
    /\ UNCHANGED <<isRecording, transcript, confidence, recordingTime,
                   wordCount, languageCount, enhancedMode, detectedLanguages,
                   switchClosure, supported, nextId, detectRequests,
                   enhanceRequests>>

RestartTimeout ==
    /\ restartTimeouts # <<>>
    /\ startRecording(Head(restartTimeouts))
    /\ restartTimeouts' = Tail(restartTimeouts)
    /\ Counted
    /\ lastOp' = [Op("restart") EXCEPT !.rec = IF supported THEN nextId ELSE 0]
    /\ UNCHANGED <<switchClosure, supported, detectRequests, enhanceRequests>>

\* toggleEnhancedMode with the title of its notification chosen after the
\* flip
ToggleNamesModeLeft ==
    /\ enhancedMode' = ~enhancedMode
    /\ toast' = IF enhancedMode' THEN "Modo Avancado Desativado"
                                 ELSE "Modo Avancado Ativado"
    /\ Counted
    /\ lastOp' = [Op("toggleEnhancedMode") EXCEPT
                     !.arg = IF enhancedMode THEN "on" ELSE "off"]
    /\ UNCHANGED <<isRecording, transcript, detectedLanguage, confidence,
                   audioLevel, recordingTime, wordCount, languageCount,
                   currentLanguage, detectedLanguages, refs, switchClosure,
                   platform>>

\* the callback is re-created whenever enhancedMode changes, so it reads the
\* current value; lastOp.arg keeps the mode the step found
ToggleEnhancedMode ==
    /\ enhancedMode' = ~enhancedMode
    /\ toast' = IF enhancedMode THEN "Modo Avancado Desativado"
                                ELSE "Modo Avancado Ativado"
    /\ Counted
    /\ lastOp' = [Op("toggleEnhancedMode") EXCEPT
                     !.arg = IF enhancedMode THEN "on" ELSE "off"]
    /\ UNCHANGED <<isRecording, transcript, detectedLanguage, confidence,
                   audioLevel, recordingTime, wordCount, languageCount,
                   currentLanguage, detectedLanguages, refs, switchClosure,
                   platform>>

(* ------------------------------- timers -------------------------------- *)

TickTime(t) ==
    /\ t \in timeTimers
    /\ recordingTime < MaxRecordingTime
    /\ recordingTime' = recordingTime + 1
    /\ toast' = "none"
    /\ Counted
    /\ lastOp' = Op("tickTime")
    /\ UNCHANGED <<isRecording, transcript, detectedLanguage, confidence,
                   audioLevel, wordCount, languageCount, currentLanguage,
                   enhancedMode, detectedLanguages, refs, switchClosure,
                   platform>>

TickAudio(t, sample) ==
    /\ t \in audioTimers
    /\ audioLevel' = sample
    /\ toast' = "none"
    /\ Counted
    /\ lastOp' = Op("tickAudio")
    /\ UNCHANGED <<isRecording, transcript, detectedLanguage, confidence,
                   recordingTime, wordCount, languageCount, currentLanguage,
                   enhancedMode, detectedLanguages, refs, switchClosure,
                   platform>>

(* -------------------------- recognizer events -------------------------- *)

\* switchLanguage is re-created in the render after isRecording changed
SwitchClosureAfter(recording) ==
    IF recording # isRecording THEN Render ELSE switchClosure

\* the platform reports the start of a recognizer, also of one that stop()
\* has already been called on
OnStart(r) ==
    /\ r \in DOMAIN recognizers
    /\ recognizers[r].status = "starting"
    /\ recognizers' = [recognizers EXCEPT ![r].status = "running"]
    /\ isRecording' = TRUE
    /\ switchClosure' = SwitchClosureAfter(TRUE)
    /\ toast' = "Gravacao Iniciada"
    /\ Counted
    /\ lastOp' = [Op("onstart") EXCEPT !.rec = r]
    /\ UNCHANGED <<transcript, detectedLanguage, confidence, audioLevel,
                   recordingTime, wordCount, languageCount, currentLanguage,
                   enhancedMode, detectedLanguages, refs, supported, nextId,
                   timeTimers, audioTimers, restartTimeouts, detectRequests,
                   enhanceRequests>>

RECURSIVE FinalText(_)
FinalText(results) ==
    IF results = <<>> THEN <<>>
    ELSE (IF Head(results).isFinal THEN Head(results).transcript ELSE <<>>)
           \o FinalText(Tail(results))

RECURSIVE InterimText(_)
InterimText(results) ==
    IF results = <<>> THEN <<>>
    ELSE (IF Head(results).isFinal THEN <<>> ELSE Head(results).transcript)
           \o InterimText(Tail(results))

\* the transcript the handler of recognizer rec publishes for an event
FullTranscript(rec, results) ==
    rec.transcript \o FinalText(results) \o InterimText(results)

\* finalTranscript.length > 20
EnhanceMinLength == 20

IssuesDetect(rec, results) == FinalText(results) # <<>>

IssuesEnhance(rec, results) ==
    /\ FinalText(results) # <<>>
    /\ rec.enhancedMode
    /\ Len(FinalText(results)) > EnhanceMinLength

OnResult(r, results) ==
    /\ r \in DOMAIN recognizers
    /\ recognizers[r].status = "running"
    /\ LET rec == recognizers[r]
           finalTranscript == FinalText(results)
           fullTranscript == FullTranscript(rec, results)
       IN  /\ Len(fullTranscript) <= MaxTranscriptLen
           /\ IssuesDetect(rec, results) => Len(detectRequests) < MaxInFlight
           /\ IssuesEnhance(rec, results) => Len(enhanceRequests) < MaxInFlight
           /\ transcript' = fullTranscript
           /\ wordCount' = CountWords(fullTranscript)
           /\ detectRequests' =
                IF IssuesDetect(rec, results)
                THEN Append(Superseded(detectRequests),
                            [text |-> finalTranscript, live |-> TRUE,
                             seen |-> detectedLanguages])
                ELSE detectRequests
           /\ enhanceRequests' =
                IF IssuesEnhance(rec, results)
                THEN Append(Superseded(enhanceRequests),
                            [text |-> finalTranscript,
                             targetLanguage |-> rec.currentLanguage,
                             live |-> TRUE, seen |-> fullTranscript])
                ELSE Follow(enhanceRequests, fullTranscript)
           /\ Counted
           /\ lastOp' = [Op("onresult") EXCEPT !.rec = r,
                            !.final = finalTranscript,
                            !.interim = InterimText(results)]
    /\ toast' = "none"
    /\ UNCHANGED <<isRecording, detectedLanguage, confidence, audioLevel,
                   recordingTime, languageCount, currentLanguage, enhancedMode,
                   detectedLanguages, refs, switchClosure, supported,
                   recognizers, nextId, timeTimers, audioTimers,
                   restartTimeouts>>

\* onerror without setIsRecording(false)
OnErrorKeepsRecording(r, error) ==
    /\ r \in DOMAIN recognizers
    /\ recognizers[r].status # "failed"
    /\ recognizers' = [recognizers EXCEPT ![r].status = "failed"]
    /\ toast' = IF error # "aborted" THEN "Erro na Gravacao" ELSE "none"
    /\ Counted
    /\ lastOp' = [Op("onerror") EXCEPT !.rec = r, !.arg = error]
    /\ UNCHANGED <<cells, refs, switchClosure, supported, nextId, timeTimers,
                   audioTimers, restartTimeouts, detectRequests,
                   enhanceRequests>>

OnError(r, error) ==
    /\ r \in DOMAIN recognizers
    /\ recognizers[r].status # "failed"
    /\ recognizers' = [recognizers EXCEPT ![r].status = "failed"]
    /\ isRecording' = FALSE
    /\ switchClosure' = SwitchClosureAfter(FALSE)
    /\ toast' = IF error # "aborted" THEN "Erro na Gravacao" ELSE "none"
    /\ Counted
    /\ lastOp' = [Op("onerror") EXCEPT !.rec = r, !.arg = error]
    /\ UNCHANGED <<transcript, detectedLanguage, confidence, audioLevel,
                   recordingTime, wordCount, languageCount, currentLanguage,
                   enhancedMode, detectedLanguages, refs, supported, nextId,
                   timeTimers, audioTimers, restartTimeouts, detectRequests,
                   enhanceRequests>>

\* the recognizer delivers no event after its end
OnEnd(r) ==
    /\ r \in DOMAIN recognizers
    /\ recognizers' = [x \in DOMAIN recognizers \ {r} |-> recognizers[x]]
    /\ isRecording' = FALSE
    /\ switchClosure' = SwitchClosureAfter(FALSE)
    /\ timeTimers' = ClearHeld(timeTimers, timeIntervalRef)
    /\ audioTimers' = ClearHeld(audioTimers, audioLevelIntervalRef)
    /\ toast' = "none"
    /\ Counted
    /\ lastOp' = [Op("onend") EXCEPT !.rec = r]
    /\ UNCHANGED <<transcript, detectedLanguage, confidence, audioLevel,
                   recordingTime, wordCount, languageCount, currentLanguage,
                   enhancedMode, detectedLanguages, refs, supported, nextId,
                   restartTimeouts, detectRequests, enhanceRequests>>

(* ------------------------- background responses ------------------------ *)

DetectSuccess(i, data) ==
    /\ i \in DOMAIN detectRequests
    /\ LET req == detectRequests[i]
           langCode == data.languageCode
           isNew == langCode \notin Range(req.seen)
       IN  /\ isNew => Len(detectedLanguages) < MaxLanguages
           /\ detectedLanguage' = data.language
           /\ confidence' = data.confidence
           /\ detectedLanguages' =
                IF isNew THEN Append(detectedLanguages, langCode)
                         ELSE detectedLanguages
           /\ languageCount' = IF isNew THEN languageCount + 1 ELSE languageCount
    /\ detectRequests' = Follow(RemoveAt(detectRequests, i), detectedLanguages')
    /\ toast' = "none"
    /\ Counted
    /\ lastOp' = [Op("detectSuccess") EXCEPT !.arg = data.languageCode]
    /\ UNCHANGED <<isRecording, transcript, audioLevel, recordingTime,
                   wordCount, currentLanguage, enhancedMode, refs,
                   switchClosure, supported, recognizers, nextId, timeTimers,
                   audioTimers, restartTimeouts, enhanceRequests>>

\* onError names a variable, text, that its scope does not hold: the
\* callback throws before the fallback runs and the mutation drops the throw
DetectError(i) ==
    /\ i \in DOMAIN detectRequests
    /\ detectRequests' = RemoveAt(detectRequests, i)
    /\ toast' = "none"
    /\ Counted
    /\ lastOp' = Op("detectError")
    /\ UNCHANGED <<cells, refs, switchClosure, supported, recognizers, nextId,
                   timeTimers, audioTimers, restartTimeouts, enhanceRequests>>

EnhanceReplies(req) == {<<>>, req.text, CorrectedText}

\* the handler compares with the transcript of the render it was created in
AcceptsEnhancement(seen, enhancedText) ==
    enhancedText # <<>> /\ enhancedText # seen

\* onSuccess without updateWordCount
EnhanceSuccessKeepsWordCount(i, enhancedText) ==
    /\ i \in DOMAIN enhanceRequests
    /\ LET req == enhanceRequests[i]
       IN  IF AcceptsEnhancement(req.seen, enhancedText)
           THEN /\ transcript' = enhancedText
                /\ UNCHANGED wordCount
           ELSE UNCHANGED <<transcript, wordCount>>
    /\ enhanceRequests' = Follow(RemoveAt(enhanceRequests, i), transcript')
    /\ toast' = "none"
    /\ Counted
    /\ lastOp' = [Op("enhanceSuccess") EXCEPT !.rec = i, !.final = enhancedText,
                    !.interim = enhanceRequests[i].seen]
    /\ UNCHANGED <<isRecording, detectedLanguage, confidence, audioLevel,
                   recordingTime, languageCount, currentLanguage, enhancedMode,
                   detectedLanguages, refs, switchClosure, supported,
                   recognizers, nextId, timeTimers, audioTimers,
                   restartTimeouts, detectRequests>>

EnhanceSuccess(i, enhancedText) ==
    /\ i \in DOMAIN enhanceRequests
    /\ LET req == enhanceRequests[i]
       IN  IF AcceptsEnhancement(req.seen, enhancedText)
           THEN /\ transcript' = enhancedText
                /\ wordCount' = CountWords(enhancedText)
           ELSE UNCHANGED <<transcript, wordCount>>
    /\ enhanceRequests' = Follow(RemoveAt(enhanceRequests, i), transcript')
    /\ toast' = "none"
    /\ Counted
    /\ lastOp' = [Op("enhanceSuccess") EXCEPT !.rec = i, !.final = enhancedText,
                    !.interim = enhanceRequests[i].seen]
    /\ UNCHANGED <<isRecording, detectedLanguage, confidence, audioLevel,
                   recordingTime, languageCount, currentLanguage, enhancedMode,
                   detectedLanguages, refs, switchClosure, supported,
                   recognizers, nextId, timeTimers, audioTimers,
                   restartTimeouts, detectRequests>>

\* the enhancement mutation has no onError
EnhanceError(i) ==
    /\ i \in DOMAIN enhanceRequests
    /\ enhanceRequests' = RemoveAt(enhanceRequests, i)
    /\ toast' = "none"
    /\ Counted
    /\ lastOp' = Op("enhanceError")
    /\ UNCHANGED <<cells, refs, switchClosure, supported, recognizers, nextId,
                   timeTimers, audioTimers, restartTimeouts, detectRequests>>

(* -------------------------- keyword heuristic -------------------------- *)

UpperCase == <<"A", "B", "C", "D", "E", "F", "G", "H", "I", "J", "K", "L", "M",
               "N", "O", "P", "Q", "R", "S", "T", "U", "V", "W", "X", "Y", "Z">>
LowerCase == <<"a", "b", "c", "d", "e", "f", "g", "h", "i", "j", "k", "l", "m",
               "n", "o", "p", "q", "r", "s", "t", "u", "v", "w", "x", "y", "z">>

\* text.toLowerCase()
ToLowerCase(text) ==
    [i \in DOMAIN text |->
        IF \E k \in DOMAIN UpperCase : UpperCase[k] = text[i]
        THEN LowerCase[CHOOSE k \in DOMAIN UpperCase : UpperCase[k] = text[i]]
        ELSE text[i]]

\* the three keyword lists ('nao' and 'esta' stand for the accented words)
portugueseWords ==
    { <<"q", "u", "e">>, <<"n", "a", "o">>, <<"u", "m", "a">>,
      <<"p", "a", "r", "a">>, <<"c", "o", "m">>, <<"e", "s", "t", "a">>,
      <<"t", "e", "m">>, <<"m", "a", "i", "s">> }
englishWords ==
    { <<"t", "h", "e">>, <<"a", "n", "d">>, <<"i", "s">>, <<"t", "o">>,
      <<"i", "t">>, <<"y", "o", "u">>, <<"t", "h", "a", "t">>,
      <<"t", "h", "i", "s">> }
spanishWords ==
    { <<"q", "u", "e">>, <<"d", "e">>, <<"e", "l">>, <<"l", "a">>,
      <<"e", "n">>, <<"y">>, <<"e", "s">>, <<"s", "e">> }

\* the words of the text that are in the list, counted with repetition
Score(words, list) == Cardinality({i \in DOMAIN words : words[i] \in list})

\* the heuristic with a confidence that grows with the score
FallbackScaledConfidence(text) ==
    LET words == SplitWs(ToLowerCase(text), <<>>)
        ptScore == Score(words, portugueseWords)
        enScore == Score(words, englishWords)
        esScore == Score(words, spanishWords)
    IN  IF ptScore > enScore /\ ptScore > esScore
        THEN /\ detectedLanguage' = "Portugues (BR)"
             /\ currentLanguage' = "pt-BR"
             /\ confidence' = 80 + ptScore
        ELSE IF enScore > ptScore /\ enScore > esScore
        THEN /\ detectedLanguage' = "English (US)"
             /\ currentLanguage' = "en-US"
             /\ confidence' = 80 + enScore
        ELSE IF esScore > ptScore /\ esScore > enScore
        THEN /\ detectedLanguage' = "Espanol (ES)"
             /\ currentLanguage' = "es-ES"
             /\ confidence' = 80 + esScore
        ELSE UNCHANGED <<detectedLanguage, currentLanguage, confidence>>

\* the heuristic that gives a tie of the Portuguese score to Portuguese
FallbackTieGoesToPortuguese(text) ==
    LET words == SplitWs(ToLowerCase(text), <<>>)
        ptScore == Score(words, portugueseWords)
        enScore == Score(words, englishWords)
        esScore == Score(words, spanishWords)
    IN  IF ptScore >= enScore /\ ptScore >= esScore
        THEN /\ detectedLanguage' = "Portugues (BR)"
             /\ currentLanguage' = "pt-BR"
             /\ confidence' = 85
        ELSE IF enScore > ptScore /\ enScore > esScore
        THEN /\ detectedLanguage' = "English (US)"
             /\ currentLanguage' = "en-US"
             /\ confidence' = 82
        ELSE IF esScore > ptScore /\ esScore > enScore
        THEN /\ detectedLanguage' = "Espanol (ES)"
             /\ currentLanguage' = "es-ES"
             /\ confidence' = 79
        ELSE UNCHANGED <<detectedLanguage, currentLanguage, confidence>>

detectLanguageFromTextFallback(text) ==
    LET words == SplitWs(ToLowerCase(text), <<>>)
        ptScore == Score(words, portugueseWords)
        enScore == Score(words, englishWords)
        esScore == Score(words, spanishWords)
    IN  IF ptScore > enScore /\ ptScore > esScore
        THEN /\ detectedLanguage' = "Portugues (BR)"
             /\ currentLanguage' = "pt-BR"
             /\ confidence' = 85
        ELSE IF enScore > ptScore /\ enScore > esScore
        THEN /\ detectedLanguage' = "English (US)"
             /\ currentLanguage' = "en-US"
             /\ confidence' = 82
        ELSE IF esScore > ptScore /\ esScore > enScore
        THEN /\ detectedLanguage' = "Espanol (ES)"
             /\ currentLanguage' = "es-ES"
             /\ confidence' = 79
        ELSE UNCHANGED <<detectedLanguage, currentLanguage, confidence>>

\* one call of the heuristic on the text of the run
FallbackDetection ==
    /\ detectLanguageFromTextFallback(heuristicText)
    /\ toast' = "none"
    /\ Counted
    /\ lastOp' = [Op("detectLanguageFromTextFallback") EXCEPT
                     !.final = heuristicText]
    /\ UNCHANGED <<isRecording, transcript, audioLevel, recordingTime,
                   wordCount, languageCount, enhancedMode, detectedLanguages,
                   refs, switchClosure, platform, heuristicText>>

\* the words the texts given to the heuristic are made of: a keyword of each
\* list, one with a capital, the keyword of two lists, a word of no list and
\* the empty word (which doubles a space or puts one at an end)
HeuristicWords ==
    { <<"t", "h", "e">>, <<"T", "h", "e">>, <<"u", "m", "a">>, <<"d", "e">>,
      <<"q", "u", "e">>, <<"c", "a", "s", "a">>, <<>> }

\* "the and is to it you that this"
EnglishScenario ==
    <<"t", "h", "e", " ", "a", "n", "d", " ", "i", "s", " ", "t", "o", " ",
      "i", "t", " ", "y", "o", "u", " ", "t", "h", "a", "t", " ",
      "t", "h", "i", "s">>

RECURSIVE JoinWords(_)
JoinWords(ws) ==
    IF Len(ws) = 1 THEN ws[1] ELSE ws[1] \o <<" ">> \o JoinWords(Tail(ws))

HeuristicTexts ==
    {EnglishScenario} \cup
    UNION {{JoinWords(ws) : ws \in [1..n -> HeuristicWords]} : n \in 1..MaxWords}

(* --------------------------- values of the server ---------------------- *)

\* A value of the server's language: undefined, null, a number (n, in
\* hundredths), NaN, a string (s) or an array of strings (a).
Undefined == [kind |-> "undefined", n |-> 0, s |-> "", a |-> <<>>]
Null == [kind |-> "null", n |-> 0, s |-> "", a |-> <<>>]
NotANumber == [kind |-> "NaN", n |-> 0, s |-> "", a |-> <<>>]
Num(n) == [kind |-> "number", n |-> n, s |-> "", a |-> <<>>]
Str(s) == [kind |-> "string", n |-> 0, s |-> s, a |-> <<>>]
Arr(a) == [kind |-> "array", n |-> 0, s |-> "", a |-> a]

\* the values that count as true in a condition
Truthy(v) ==
    \/ v.kind = "number" /\ v.n # 0
    \/ v.kind = "string" /\ v.s # ""
    \/ v.kind = "array"

\* v || d
Or(v, d) == IF Truthy(v) THEN v ELSE d

\* the number an argument of Math.min and Math.max is converted to; the
\* strings of the model are no numerals
ToNumber(v) ==
    CASE v.kind = "number" -> v
      [] v.kind = "null" -> Num(0)
      [] v.kind = "string" /\ v.s = "" -> Num(0)
      [] v.kind = "array" /\ v.a = <<>> -> Num(0)
      [] OTHER -> NotANumber

MathMin(x, y) ==
    LET p == ToNumber(x)
        q == ToNumber(y)
    IN  IF p.kind = "NaN" \/ q.kind = "NaN" THEN NotANumber
        ELSE IF p.n < q.n THEN p ELSE q

MathMax(x, y) ==
    LET p == ToNumber(x)
        q == ToNumber(y)
    IN  IF p.kind = "NaN" \/ q.kind = "NaN" THEN NotANumber
        ELSE IF p.n > q.n THEN p ELSE q

\* Math.max(0, Math.min(1, v || d)) with d the default of the operation
ClampConfidence(v, d) == MathMax(Num(0), MathMin(Num(100), Or(v, Num(d))))

IsArray(v) == v.kind = "array"

\* res.json(value): a NaN is written as null
JsonNumber(v) == IF v.kind = "NaN" THEN Null ELSE v

(* --------------------------- the AI provider --------------------------- *)

\* What a call of the provider gives: the call fails, or it gives a content
\* that is empty, that is no JSON, or that is the JSON of the object data (a
\* field the object lacks is Undefined).
ProviderFails(none) == [kind |-> "fails", data |-> none]
EmptyContent(none) == [kind |-> "empty", data |-> none]
Malformed(none) == [kind |-> "malformed", data |-> none]
Object(data) == [kind |-> "json", data |-> data]
PlainText(text) == [kind |-> "text", data |-> text]

\* the confidence of a response: absent, below, inside and above the range,
\* and a string
ConfidenceFields ==
    {Undefined, Num(-50), Num(0), Num(70), Num(100), Num(150), Str("alta")}

NoDetection ==
    [language |-> Undefined, confidence |-> Undefined, languageCode |-> Undefined]

DetectUpstreams ==
    {ProviderFails(NoDetection), EmptyContent(NoDetection), Malformed(NoDetection)}
    \cup {Object(data) : data \in
            [language : {Undefined, Str("Ingles")},
             confidence : ConfidenceFields,
             languageCode : {Undefined, Str("en-US")}]}

NoEnhancement ==
    [enhancedText |-> Undefined, corrections |-> Undefined, confidence |-> Undefined]

EnhanceUpstreams ==
    {ProviderFails(NoEnhancement), EmptyContent(NoEnhancement),
     Malformed(NoEnhancement)}
    \cup {Object(data) : data \in
            [enhancedText : {Undefined, Str(""), Str("Ola, mundo.")},
             corrections : {Undefined, Str("nenhuma"), Arr(<<"virgula">>)},
             confidence : ConfidenceFields]}

NoAnswer ==
    [answer |-> Undefined, confidence |-> Undefined, relatedTopics |-> Undefined]

AnalyzeUpstreams ==
    {ProviderFails(NoAnswer), EmptyContent(NoAnswer), Malformed(NoAnswer)}
    \cup {Object(data) : data \in
            [answer : {Undefined, Str("Sim.")},
             confidence : ConfidenceFields,
             relatedTopics : {Undefined, Arr(<<"tema">>)}]}

\* the summary is a plain text, not JSON
SummaryUpstreams ==
    {ProviderFails(Undefined), EmptyContent(Undefined), PlainText(Str("Resumo."))}

\* what a wrapper gives its caller
Returned(value) == [raised |-> FALSE, message |-> "", value |-> value]
Raised(message) == [raised |-> TRUE, message |-> message, value |-> Undefined]

(* ------------------ the wrappers of services/openai.ts ----------------- *)

\* the detection with a catch that raises, as the catch of the analysis does
detectLanguageRaises_OpenAI(text, upstream) ==
    LET result == IF upstream.kind = "empty" THEN NoDetection ELSE upstream.data
    IN  IF upstream.kind \in {"fails", "malformed"}
        THEN Raised("Falha na deteccao de idioma")
        ELSE Returned([language |-> Or(result.language, Str("Nao identificado")),
                       confidence |-> ClampConfidence(result.confidence, 50),
                       languageCode |-> Or(result.languageCode, Str("unknown"))])

\* JSON.parse(content || "{}"): an empty content is read as an object with
\* no field
detectLanguageFromText_OpenAI(text, upstream) ==
    LET result == IF upstream.kind = "empty" THEN NoDetection ELSE upstream.data
    IN  IF upstream.kind \in {"fails", "malformed"}
        THEN Returned([language |-> Str("Erro na deteccao"),
                       confidence |-> Num(0),
                       languageCode |-> Str("unknown")])
        ELSE Returned([language |-> Or(result.language, Str("Nao identificado")),
                       confidence |-> ClampConfidence(result.confidence, 50),
                       languageCode |-> Or(result.languageCode, Str("unknown"))])

enhanceTranscriptionText_OpenAI(text, upstream) ==
    LET result == IF upstream.kind = "empty" THEN NoEnhancement ELSE upstream.data
    IN  IF upstream.kind \in {"fails", "malformed"}
        THEN Returned([enhancedText |-> text,
                       corrections |-> Arr(<<>>),
                       confidence |-> Num(50)])
        ELSE Returned([enhancedText |-> Or(result.enhancedText, text),
                       corrections |-> IF IsArray(result.corrections)
                                       THEN result.corrections ELSE Arr(<<>>),
                       confidence |-> ClampConfidence(result.confidence, 80)])

\* the answer without the catch that raises again
analyzeSwallowsFailure_OpenAI(transcription, question, upstream) ==
    LET result == IF upstream.kind = "json" THEN upstream.data ELSE NoAnswer
    IN  Returned([answer |-> Or(result.answer, Str("Nao foi possivel gerar uma resposta")),
                  confidence |-> ClampConfidence(result.confidence, 50),
                  relatedTopics |-> IF IsArray(result.relatedTopics)
                                    THEN result.relatedTopics ELSE Arr(<<>>)])

analyzeTranscriptionContent_OpenAI(transcription, question, upstream) ==
    LET result == IF upstream.kind = "empty" THEN NoAnswer ELSE upstream.data
    IN  IF upstream.kind \in {"fails", "malformed"}
        THEN Raised("Falha ao analisar conteudo")
        ELSE Returned([answer |-> Or(result.answer, Str("Nao foi possivel gerar uma resposta")),
                       confidence |-> ClampConfidence(result.confidence, 50),
                       relatedTopics |-> IF IsArray(result.relatedTopics)
                                         THEN result.relatedTopics ELSE Arr(<<>>)])

generateSummary_OpenAI(transcription, upstream) ==
    IF upstream.kind = "fails"
    THEN Raised("Falha ao gerar resumo")
    ELSE Returned(Or(upstream.data, Str("Nao foi possivel gerar um resumo.")))

(* ----------------- the wrappers that call Gemini ----------------------- *)

\* if (rawJson) ... else throw: an empty content goes to the catch
detectLanguageFromText_Gemini(text, upstream) ==
    IF upstream.kind \in {"fails", "malformed", "empty"}
    THEN Returned([language |-> Str("Erro na deteccao"),
                   confidence |-> Num(0),
                   languageCode |-> Str("unknown")])
    ELSE LET data == upstream.data
         IN  Returned([language |-> Or(data.language, Str("Nao identificado")),
                       confidence |-> ClampConfidence(data.confidence, 50),
                       languageCode |-> Or(data.languageCode, Str("unknown"))])

enhanceTranscriptionText_Gemini(text, upstream) ==
    IF upstream.kind \in {"fails", "malformed", "empty"}
    THEN Returned([enhancedText |-> text,
                   corrections |-> Arr(<<>>),
                   confidence |-> Num(50)])
    ELSE LET data == upstream.data
         IN  Returned([enhancedText |-> Or(data.enhancedText, text),
                       corrections |-> IF IsArray(data.corrections)
                                       THEN data.corrections ELSE Arr(<<>>),
                       confidence |-> ClampConfidence(data.confidence, 80)])

analyzeTranscriptionContent_Gemini(transcription, question, upstream) ==
    IF upstream.kind \in {"fails", "malformed", "empty"}
    THEN Raised("Falha ao analisar conteudo")
    ELSE LET data == upstream.data
         IN  Returned([answer |-> Or(data.answer, Str("Nao foi possivel gerar uma resposta")),
                       confidence |-> ClampConfidence(data.confidence, 50),
                       relatedTopics |-> IF IsArray(data.relatedTopics)
                                         THEN data.relatedTopics ELSE Arr(<<>>)])

generateSummary_Gemini(transcription, upstream) ==
    IF upstream.kind = "fails"
    THEN Raised("Falha ao gerar resumo")
    ELSE Returned(Or(upstream.data, Str("Nao foi possivel gerar um resumo.")))

\* import { ... } from "./services/openai": the module the server is built
\* with
Services == {"openai", "gemini"}

detectLanguageFromText(text, upstream) ==
    IF services = "openai" THEN detectLanguageFromText_OpenAI(text, upstream)
                           ELSE detectLanguageFromText_Gemini(text, upstream)

enhanceTranscriptionText(text, upstream) ==
    IF services = "openai" THEN enhanceTranscriptionText_OpenAI(text, upstream)
                           ELSE enhanceTranscriptionText_Gemini(text, upstream)

analyzeTranscriptionContent(transcription, question, upstream) ==
    IF services = "openai"
    THEN analyzeTranscriptionContent_OpenAI(transcription, question, upstream)
    ELSE analyzeTranscriptionContent_Gemini(transcription, question, upstream)

generateSummary(transcription, upstream) ==
    IF services = "openai" THEN generateSummary_OpenAI(transcription, upstream)
                           ELSE generateSummary_Gemini(transcription, upstream)

(* ------------------------------ AI routes ------------------------------ *)

\* What a route answers: the status, the message of an error, the body of a
\* success, the number of calls of the provider it made and what the wrapper
\* gave (NoCall when none was called).
NoCall == [raised |-> FALSE, message |-> "", value |-> Undefined]

Reply(status, message, body, calls, outcome) ==
    [status |-> status, message |-> message, body |-> body, calls |-> calls,
     outcome |-> outcome]

\* error.message || fallback
MessageOr(message, fallback) == IF message # "" THEN message ELSE fallback

Texts == {Undefined, Str(""), Str("ola mundo")}

AnalyzeBodies == [transcription : Texts, question : Texts]
SummaryBodies == [transcription : Texts]
TextBodies == [text : Texts]

\* the route without the test of the question
aiAnalyzeUnchecked(body, upstream) ==
    IF ~Truthy(body.transcription)
    THEN Reply(400, "Transcricao e pergunta sao obrigatorias", Undefined, 0, NoCall)
    ELSE LET analysis == analyzeTranscriptionContent(body.transcription,
                                                     body.question, upstream)
         IN  IF analysis.raised
             THEN Reply(500, MessageOr(analysis.message, "Falha na analise de IA"),
                        Undefined, 1, analysis)
             ELSE Reply(200, "",
                        [analysis.value EXCEPT !.confidence = JsonNumber(@)],
                        1, analysis)

\* app.post("/api/ai/analyze")
aiAnalyze(body, upstream) ==
    IF ~Truthy(body.transcription) \/ ~Truthy(body.question)
    THEN Reply(400, "Transcricao e pergunta sao obrigatorias", Undefined, 0, NoCall)
    ELSE LET analysis == analyzeTranscriptionContent(body.transcription,
                                                     body.question, upstream)
         IN  IF analysis.raised
             THEN Reply(500, MessageOr(analysis.message, "Falha na analise de IA"),
                        Undefined, 1, analysis)
             ELSE Reply(200, "",
                        [analysis.value EXCEPT !.confidence = JsonNumber(@)],
                        1, analysis)

\* app.post("/api/ai/summary")
aiSummary(body, upstream) ==
    IF ~Truthy(body.transcription)
    THEN Reply(400, "Transcricao e obrigatoria", Undefined, 0, NoCall)
    ELSE LET summary == generateSummary(body.transcription, upstream)
         IN  IF summary.raised
             THEN Reply(500, MessageOr(summary.message, "Falha ao gerar resumo"),
                        Undefined, 1, summary)
             ELSE Reply(200, "", [summary |-> summary.value], 1, summary)

\* app.post("/api/ai/detect-language")
aiDetectLanguage(body, upstream) ==
    IF ~Truthy(body.text)
    THEN Reply(400, "Texto e obrigatorio", Undefined, 0, NoCall)
    ELSE LET detection == detectLanguageFromText(body.text, upstream)
         IN  IF detection.raised
             THEN Reply(500, "Falha na deteccao de idioma", Undefined, 1, detection)
             ELSE Reply(200, "",
                        [detection.value EXCEPT !.confidence = JsonNumber(@)],
                        1, detection)

\* app.post("/api/ai/enhance")
aiEnhance(body, upstream) ==
    IF ~Truthy(body.text)
    THEN Reply(400, "Texto e obrigatorio", Undefined, 0, NoCall)
    ELSE LET enhancement == enhanceTranscriptionText(body.text, upstream)
         IN  IF enhancement.raised
             THEN Reply(500, MessageOr(enhancement.message,
                                       "Falha no aprimoramento do texto"),
                        Undefined, 1, enhancement)
             ELSE Reply(200, "",
                        [enhancement.value EXCEPT !.confidence = JsonNumber(@)],
                        1, enhancement)

\* the exchange a route served; the provider's answer is kept when the
\* provider was called
NoExchange ==
    [route |-> "none", request |-> Undefined, upstream |-> Undefined,
     reply |-> Reply(0, "", Undefined, 0, NoCall)]

Exchange(route, request, upstream, reply) ==
    [route |-> route, request |-> request,
     upstream |-> IF reply.calls > 0 THEN upstream ELSE Undefined,
     reply |-> reply]

PostAiAnalyze(body, upstream) ==
    /\ exchange' = Exchange("POST /api/ai/analyze", body, upstream,
                            aiAnalyze(body, upstream))
    /\ UNCHANGED <<session, heuristicText, services, sessions, analyses, panel>>

PostAiSummary(body, upstream) ==
    /\ exchange' = Exchange("POST /api/ai/summary", body, upstream,
                            aiSummary(body, upstream))
    /\ UNCHANGED <<session, heuristicText, services, sessions, analyses, panel>>

PostAiDetectLanguage(body, upstream) ==
    /\ exchange' = Exchange("POST /api/ai/detect-language", body, upstream,
                            aiDetectLanguage(body, upstream))
    /\ UNCHANGED <<session, heuristicText, services, sessions, analyses, panel>>

PostAiEnhance(body, upstream) ==
    /\ exchange' = Exchange("POST /api/ai/enhance", body, upstream,
                            aiEnhance(body, upstream))
    /\ UNCHANGED <<session, heuristicText, services, sessions, analyses, panel>>

(* --------------------------- question panel ---------------------------- *)

NoAnalysis == Null
NoQuestion == [transcription |-> Undefined, question |-> Undefined]

PanelTranscripts == {Str(""), Str("ola mundo")}
Questions == {Str(""), Str("quem fala?")}

\* handleSubmitQuestion with the question already trimmed; the input and the
\* button are disabled while a question awaits its response
HandleSubmitQuestion(transcriptProp, question) ==
    /\ analyzing = NoQuestion
    /\ IF ~Truthy(question) \/ ~Truthy(transcriptProp)
       THEN /\ notice' = "Aviso"
            /\ UNCHANGED analyzing
       ELSE /\ analyzing' = [transcription |-> transcriptProp,
                             question |-> question]
            /\ notice' = "none"
    /\ UNCHANGED <<session, heuristicText, server, lastAnalysis>>

\* apiRequest rejects when the status of the response is not a success
apiRequest(reply) ==
    IF reply.status \in 200..299 THEN Returned(reply.body)
                                 ELSE Raised(reply.message)

\* the request of the panel is served and the mutation settles: onSuccess
\* displays the analysis, onError notifies
AnalysisSettles(upstream) ==
    /\ analyzing # NoQuestion
    /\ LET reply == aiAnalyze(analyzing, upstream)
           data == apiRequest(reply)
       IN  /\ exchange' = Exchange("POST /api/ai/analyze", analyzing, upstream, reply)
           /\ IF data.raised
              THEN /\ notice' = "Erro"
                   /\ UNCHANGED lastAnalysis
              ELSE /\ lastAnalysis' = data.value
                   /\ notice' = "none"
    /\ analyzing' = NoQuestion
    /\ UNCHANGED <<session, heuristicText, services, sessions, analyses>>

(* ---------------- the session's requests at the server ----------------- *)

\* the text of a request as the server reads it: the routes and the
\* detection test only whether it is empty
TextValue(text) == IF text = <<>> THEN Str("") ELSE Str("segmento")

\* what the provider gives for a segment of the session: a failure, or a
\* detection with every field
SessionDetectUpstreams ==
    {ProviderFails(NoDetection),
     Object([language |-> Str("English (US)"), confidence |-> Num(95),
             languageCode |-> Str("en-US")])}

\* response.json() of a detection: the fields as the session keeps them
DetectionData(value) ==
    [language |-> value.language.s, confidence |-> value.confidence.n,
     languageCode |-> value.languageCode.s]

\* Request i of the session is served by the route and the mutation
\* settles: onSuccess on a response with a success status, onError when the
\* status is an error or when nothing is delivered (the request or the
\* response is lost on the network).
DetectSettles(i, upstream, delivered) ==
    /\ i \in DOMAIN detectRequests
    /\ LET body == [text |-> TextValue(detectRequests[i].text)]
           reply == aiDetectLanguage(body, upstream)
           data == apiRequest(reply)
       IN  IF delivered
           THEN /\ exchange' = Exchange("POST /api/ai/detect-language", body,
                                        upstream, reply)
                /\ IF data.raised
                   THEN DetectError(i)
                   ELSE DetectSuccess(i, DetectionData(data.value))
           ELSE /\ UNCHANGED exchange
                /\ DetectError(i)
    /\ UNCHANGED <<heuristicText, services, sessions, analyses, panel>>

(* ------------------------------- store --------------------------------- *)

\* The store keeps the title of each session under its id and counts the
\* analyses.  A call of the store either fails as a whole (fault), leaving
\* the store as it was, or is carried out.
SessionIds == 1..MaxSessions

Titles == {Str("Aula"), Str("Reuniao")}

\* the bodies of a request: a title, no title, a title that is no string
SessionBodies == [title : Titles \cup {Undefined, Num(700)}]

\* the schemas accept a body whose title is a string
insertTranscriptionSessionSchema(body) == body.title.kind = "string"
insertAiAnalysisSchema(body) == body.title.kind = "string"

\* the id a new session is given
FreshId == CHOOSE id \in SessionIds : id \notin DOMAIN sessions

\* the route that stores the body before it validates it
postSessionsStoresFirst(body, fault) ==
    IF fault
    THEN /\ exchange' = Exchange("POST /api/sessions", body, Undefined,
                 Reply(400, "Dados invalidos para criacao da sessao", Undefined, 0, NoCall))
         /\ UNCHANGED sessions
    ELSE /\ exchange' = Exchange("POST /api/sessions", body, Undefined,
                 IF insertTranscriptionSessionSchema(body)
                 THEN Reply(200, "", [id |-> FreshId, title |-> body.title], 0, NoCall)
                 ELSE Reply(400, "Dados invalidos para criacao da sessao",
                            Undefined, 0, NoCall))
         /\ sessions' = sessions @@ (FreshId :> body.title)

\* app.post("/api/sessions"): a body the schema rejects and a failure of the
\* store both end in the catch
postSessions(body, fault) ==
    IF ~insertTranscriptionSessionSchema(body) \/ fault
    THEN /\ exchange' = Exchange("POST /api/sessions", body, Undefined,
                 Reply(400, "Dados invalidos para criacao da sessao", Undefined, 0, NoCall))
         /\ UNCHANGED sessions
    ELSE /\ exchange' = Exchange("POST /api/sessions", body, Undefined,
                 Reply(200, "", [id |-> FreshId, title |-> body.title], 0, NoCall))
         /\ sessions' = sessions @@ (FreshId :> body.title)

PostSessions(body, fault) ==
    /\ Cardinality(DOMAIN sessions) < MaxSessions
    /\ postSessions(body, fault)
    /\ UNCHANGED <<session, heuristicText, services, analyses, panel>>

\* the route with the missing session answered in the catch
getSessionMissingInCatch(id, fault) ==
    IF fault \/ id \notin DOMAIN sessions
    THEN Reply(500, "Falha ao buscar sessao", Undefined, 0, NoCall)
    ELSE Reply(200, "", [id |-> id, title |-> sessions[id]], 0, NoCall)

\* app.get("/api/sessions/:id")
getSession(id, fault) ==
    IF fault
    THEN Reply(500, "Falha ao buscar sessao", Undefined, 0, NoCall)
    ELSE IF id \notin DOMAIN sessions
    THEN Reply(404, "Sessao nao encontrada", Undefined, 0, NoCall)
    ELSE Reply(200, "", [id |-> id, title |-> sessions[id]], 0, NoCall)

GetSession(id, fault) ==
    /\ exchange' = Exchange("GET /api/sessions/:id", [id |-> id, fault |-> fault],
                            Undefined, getSession(id, fault))
    /\ UNCHANGED <<session, heuristicText, services, sessions, analyses, panel>>

\* app.patch("/api/sessions/:id"): the body is handed to the store as it is
PatchSession(id, body, fault) ==
    /\ IF fault
       THEN /\ exchange' = Exchange("PATCH /api/sessions/:id",
                    [id |-> id, fault |-> fault], Undefined,
                    Reply(500, "Falha ao atualizar sessao", Undefined, 0, NoCall))
            /\ UNCHANGED sessions
       ELSE IF id \notin DOMAIN sessions
       THEN /\ exchange' = Exchange("PATCH /api/sessions/:id",
                    [id |-> id, fault |-> fault], Undefined,
                    Reply(404, "Sessao nao encontrada", Undefined, 0, NoCall))
            /\ UNCHANGED sessions
       ELSE /\ exchange' = Exchange("PATCH /api/sessions/:id",
                    [id |-> id, fault |-> fault], Undefined,
                    Reply(200, "", [id |-> id, title |-> Or(body.title, sessions[id])],
                          0, NoCall))
            /\ sessions' = [sessions EXCEPT ![id] =
                              IF body.title.kind = "undefined" THEN @
                              ELSE body.title]
    /\ UNCHANGED <<session, heuristicText, services, analyses, panel>>

\* app.delete("/api/sessions/:id")
DeleteSession(id, fault) ==
    /\ IF fault
       THEN /\ exchange' = Exchange("DELETE /api/sessions/:id",
                    [id |-> id, fault |-> fault], Undefined,
                    Reply(500, "Falha ao deletar sessao", Undefined, 0, NoCall))
            /\ UNCHANGED sessions
       ELSE IF id \notin DOMAIN sessions
       THEN /\ exchange' = Exchange("DELETE /api/sessions/:id",
                    [id |-> id, fault |-> fault], Undefined,
                    Reply(404, "Sessao nao encontrada", Undefined, 0, NoCall))
            /\ UNCHANGED sessions
       ELSE /\ exchange' = Exchange("DELETE /api/sessions/:id",
                    [id |-> id, fault |-> fault], Undefined,
                    Reply(200, "Sessao deletada com sucesso", Undefined, 0, NoCall))
            /\ sessions' = [x \in DOMAIN sessions \ {id} |-> sessions[x]]
    /\ UNCHANGED <<session, heuristicText, services, analyses, panel>>

\* app.post("/api/analyses")
PostAnalyses(body, fault) ==
    /\ analyses < MaxAnalyses
    /\ IF ~insertAiAnalysisSchema(body) \/ fault
       THEN /\ exchange' = Exchange("POST /api/analyses", body, Undefined,
                    Reply(400, "Dados invalidos para analise", Undefined, 0, NoCall))
            /\ UNCHANGED analyses
       ELSE /\ exchange' = Exchange("POST /api/analyses", body, Undefined,
                    Reply(200, "", [id |-> analyses + 1, title |-> body.title], 0, NoCall))
            /\ analyses' = analyses + 1
    /\ UNCHANGED <<session, heuristicText, services, sessions, panel>>

(* ---------------------------- specification ---------------------------- *)

ServerInit ==
    /\ exchange = NoExchange
    /\ sessions = <<>>
    /\ analyses = 0

PanelInit ==
    /\ lastAnalysis = NoAnalysis
    /\ notice = "none"
    /\ analyzing = NoQuestion

Init ==
    /\ SessionInit
    /\ heuristicText = <<>>
    /\ services = "openai"
    /\ ServerInit
    /\ PanelInit

\* a step of the recognition session; the requests it sends are answered by
\* DetectReplies and EnhanceReplies, and the server and the question panel
\* are not part of it
Next ==
    \/ Start /\ UNCHANGED <<heuristicText, server, panel>>
    \/ Stop /\ UNCHANGED <<heuristicText, server, panel>>
    \/ Clear /\ UNCHANGED <<heuristicText, server, panel>>
    \/ \E langCode \in LanguageCodes :
          SwitchLanguage(langCode) /\ UNCHANGED <<heuristicText, server, panel>>
    \/ RestartTimeout /\ UNCHANGED <<heuristicText, server, panel>>
    \/ ToggleEnhancedMode /\ UNCHANGED <<heuristicText, server, panel>>
    \/ \E t \in timeTimers :
          TickTime(t) /\ UNCHANGED <<heuristicText, server, panel>>
    \/ \E t \in audioTimers, sample \in AudioSamples :
          TickAudio(t, sample) /\ UNCHANGED <<heuristicText, server, panel>>
    \/ \E r \in DOMAIN recognizers :
          OnStart(r) /\ UNCHANGED <<heuristicText, server, panel>>
    \/ \E r \in DOMAIN recognizers, results \in ResultEvents :
          OnResult(r, results) /\ UNCHANGED <<heuristicText, server, panel>>
    \/ \E r \in DOMAIN recognizers, error \in RecognitionErrors :
          OnError(r, error) /\ UNCHANGED <<heuristicText, server, panel>>
    \/ \E r \in DOMAIN recognizers :
          OnEnd(r) /\ UNCHANGED <<heuristicText, server, panel>>
    \/ \E i \in DOMAIN detectRequests, data \in DetectReplies :
          DetectSuccess(i, data) /\ UNCHANGED <<heuristicText, server, panel>>
    \/ \E i \in DOMAIN detectRequests :
          DetectError(i) /\ UNCHANGED <<heuristicText, server, panel>>
    \/ \E i \in DOMAIN enhanceRequests :
          \E enhancedText \in EnhanceReplies(enhanceRequests[i]) :
             EnhanceSuccess(i, enhancedText)
             /\ UNCHANGED <<heuristicText, server, panel>>
    \/ \E i \in DOMAIN enhanceRequests :
          EnhanceError(i) /\ UNCHANGED <<heuristicText, server, panel>>

Spec == Init /\ [][Next]_vars

\* the server started with either services module, and the panel as mounted
AiInit ==
    /\ SessionInit
    /\ heuristicText = <<>>
    /\ services \in Services
    /\ ServerInit
    /\ PanelInit

\* the AI routes of the server
AiNext ==
    \/ \E body \in AnalyzeBodies, upstream \in AnalyzeUpstreams :
          PostAiAnalyze(body, upstream)
    \/ \E body \in SummaryBodies, upstream \in SummaryUpstreams :
          PostAiSummary(body, upstream)
    \/ \E body \in TextBodies, upstream \in DetectUpstreams :
          PostAiDetectLanguage(body, upstream)
    \/ \E body \in TextBodies, upstream \in EnhanceUpstreams :
          PostAiEnhance(body, upstream)

AiSpec == AiInit /\ [][AiNext]_vars

\* the question panel with the analysis route that serves it, and the
\* summary route
PanelNext ==
    \/ \E transcriptProp \in PanelTranscripts, question \in Questions :
          HandleSubmitQuestion(transcriptProp, question)
    \/ \E upstream \in AnalyzeUpstreams : AnalysisSettles(upstream)
    \/ \E body \in SummaryBodies, upstream \in SummaryUpstreams :
          PostAiSummary(body, upstream)

PanelSpec == AiInit /\ [][PanelNext]_vars

\* the routes of the store
StoreNext ==
    \/ \E body \in SessionBodies, fault \in BOOLEAN : PostSessions(body, fault)
    \/ \E id \in SessionIds, fault \in BOOLEAN : GetSession(id, fault)
    \/ \E id \in SessionIds, body \in SessionBodies, fault \in BOOLEAN :
          PatchSession(id, body, fault)
    \/ \E id \in SessionIds, fault \in BOOLEAN : DeleteSession(id, fault)
    \/ \E body \in SessionBodies, fault \in BOOLEAN : PostAnalyses(body, fault)

StoreSpec == AiInit /\ [][StoreNext]_vars

\* The session after start(), the start of recognizer 1, a result event with
\* the finalized text "a", the detection response English (US) and the end
\* of the recognizer: nothing is running and the detection is not the
\* initial one.
SessionAfterDetection ==
    /\ isRecording = FALSE
    /\ transcript = ShortText
    /\ detectedLanguage = "English (US)"
    /\ confidence = 95
    /\ audioLevel = 0
    /\ recordingTime = 0
    /\ wordCount = 1
    /\ languageCount = 2
    /\ currentLanguage = "pt-BR"
    /\ enhancedMode = TRUE
    /\ detectedLanguages = <<"pt-BR", "en-US">>
    /\ recognitionRef = 1
    /\ timeIntervalRef = 1
    /\ audioLevelIntervalRef = 1
    /\ switchClosure = Render
    /\ supported = TRUE
    /\ recognizers = <<>>
    /\ nextId = 2
    /\ timeTimers = {}
    /\ audioTimers = {}
    /\ restartTimeouts = <<>>
    /\ detectRequests = <<>>
    /\ enhanceRequests = <<>>
    /\ steps = 0
    /\ toast = "none"
    /\ lastOp = NoOp

\* the keyword heuristic applied to each text of HeuristicTexts, in the
\* session as constructed and in the session after a detection
HeuristicInit ==
    /\ SessionInit \/ SessionAfterDetection
    /\ heuristicText \in HeuristicTexts
    /\ services = "openai"
    /\ ServerInit
    /\ PanelInit

HeuristicNext == FallbackDetection /\ UNCHANGED <<server, panel>>

HeuristicSpec == HeuristicInit /\ [][HeuristicNext]_vars

\* The session after start() and the start of recognizer 1: it is recording
\* with the handlers of the first render, and both timers run.
SessionRecording ==
    /\ isRecording = TRUE
    /\ transcript = <<>>
    /\ detectedLanguage = "Portugues (BR)"
    /\ confidence = 98
    /\ audioLevel = 0
    /\ recordingTime = 0
    /\ wordCount = 0
    /\ languageCount = 1
    /\ currentLanguage = "pt-BR"
    /\ enhancedMode = TRUE
    /\ detectedLanguages = <<"pt-BR">>
    /\ recognitionRef = 1
    /\ timeIntervalRef = 1
    /\ audioLevelIntervalRef = 1
    /\ switchClosure = Render
    /\ supported = TRUE
    /\ recognizers = (1 :> [initializeRecognition(Render) EXCEPT
                                !.status = "running"])
    /\ nextId = 2
    /\ timeTimers = {1}
    /\ audioTimers = {1}
    /\ restartTimeouts = <<>>
    /\ detectRequests = <<>>
    /\ enhanceRequests = <<>>
    /\ steps = 0
    /\ toast = "none"
    /\ lastOp = NoOp

\* the session as constructed or recording, the server with either services
\* module
DetectInit ==
    /\ SessionInit \/ SessionRecording
    /\ heuristicText = <<>>
    /\ services \in Services
    /\ ServerInit
    /\ PanelInit

\* the session with the detection requests served by the server
DetectNext ==
    \/ Start /\ UNCHANGED <<heuristicText, server, panel>>
    \/ Stop /\ UNCHANGED <<heuristicText, server, panel>>
    \/ Clear /\ UNCHANGED <<heuristicText, server, panel>>
    \/ \E r \in DOMAIN recognizers :
          OnStart(r) /\ UNCHANGED <<heuristicText, server, panel>>
    \/ \E r \in DOMAIN recognizers, results \in ResultEvents :
          OnResult(r, results) /\ UNCHANGED <<heuristicText, server, panel>>
    \/ \E r \in DOMAIN recognizers :
          OnEnd(r) /\ UNCHANGED <<heuristicText, server, panel>>
    \/ \E i \in DOMAIN detectRequests, upstream \in SessionDetectUpstreams,
          delivered \in BOOLEAN :
          DetectSettles(i, upstream, delivered)

DetectSpec == DetectInit /\ [][DetectNext]_vars


(* ------------------------------- claims -------------------------------- *)

\* C1: the length of the transcript never decreases from one state to the
\* next, except in a step that is clear() or the arrival of an enhancement
\* response.
C1_LengthNeverDecreases ==
    [][lastOp'.op \in {"clear", "enhanceSuccess"}
         \/ Len(transcript') >= Len(transcript)]_vars

\* C2: the transcript published after a recognizer result event is the
\* transcript as it stood before the event, followed by the finalized text of
\* the event, followed by its interim text.
C2_AppendsToCurrentTranscript ==
    [][lastOp'.op = "onresult"
         => transcript' = transcript \o lastOp'.final \o lastOp'.interim]_vars

\* C3: an enhancement response whose enhancedText is non-empty and differs
\* from the current transcript replaces the whole transcript and wordCount is
\* recomputed from it; an empty enhancedText, or one equal to the current
\* transcript, leaves transcript and wordCount unchanged.
C3_ReplacesWhenDifferentFromCurrent ==
    [][lastOp'.op = "enhanceSuccess"
         => IF lastOp'.final # <<>> /\ lastOp'.final # transcript
            THEN /\ transcript' = lastOp'.final
                 /\ wordCount' = CountWords(lastOp'.final)
            ELSE UNCHANGED <<transcript, wordCount>>]_vars

\* C4: a recognizer result event issues a language-detection request if and
\* only if its finalized text is non-empty, and an enhancement request if and
\* only if moreover enhancedMode is on and the finalized text is longer than
\* 20 characters; the enhancement request carries the finalized text of the
\* event.
C4_RequestsIssued ==
    [][lastOp'.op = "onresult"
         => /\ IF lastOp'.final # <<>>
               THEN /\ Len(detectRequests') = Len(detectRequests) + 1
                    /\ detectRequests'[Len(detectRequests')].text = lastOp'.final
               ELSE Len(detectRequests') = Len(detectRequests)
            /\ IF lastOp'.final # <<>> /\ enhancedMode /\ Len(lastOp'.final) > 20
               THEN /\ Len(enhanceRequests') = Len(enhanceRequests) + 1
                    /\ enhanceRequests'[Len(enhanceRequests')].text = lastOp'.final
               ELSE Len(enhanceRequests') = Len(enhanceRequests)]_vars

\* the state stop() leaves: nothing held, audio level 0
Released ==
    /\ recognitionRef = 0
    /\ timeIntervalRef = 0
    /\ audioLevelIntervalRef = 0
    /\ audioLevel = 0

\* C5: stop() is idempotent: a stop() that follows a stop(), and a stop() on
\* a session that holds nothing and has audio level 0, changes no session
\* state (isRecording, transcript, counters, audio level, recognizer handle
\* and recognizers, timer handles and timers).
C5_StopIdempotent ==
    [][lastOp'.op = "stop" /\ (lastOp.op = "stop" \/ Released)
         => UNCHANGED sessionState]_vars

\* a second stop() in a row, while the session had a recording to stop
C5_Witness ==
    /\ lastOp.op = "stop"
    /\ lastOp.arg = "again"
    /\ isRecording
    /\ \E r \in DOMAIN recognizers : recognizers[r].stopped

\* C6: after stop() the recognizer held has been told to halt and the handle
\* is released, no elapsed-time timer and no audio-level timer is active,
\* audioLevel is 0, and recordingTime does not increase until the next
\* start() (while no recognizer is held).
C6_StopHaltsEverything ==
    [][/\ lastOp'.op = "stop"
          => /\ recognitionRef \in DOMAIN recognizers
                  => recognizers'[recognitionRef].stopped
             /\ recognitionRef' = 0
             /\ timeTimers' = {}
             /\ audioTimers' = {}
             /\ audioLevel' = 0
       /\ recognitionRef = 0 /\ recognitionRef' = 0
          => recordingTime' <= recordingTime]_vars

\* C7: after clear() the transcript is empty, wordCount and recordingTime
\* are 0, and detectedLanguages is the single initial language with
\* languageCount 1.
C7_ClearResets ==
    lastOp.op = "clear"
      => /\ transcript = <<>>
         /\ wordCount = 0
         /\ recordingTime = 0
         /\ detectedLanguages = <<"pt-BR">>
         /\ languageCount = 1

\* clear() has acted on a session with text and a second detected language
C7_Witness ==
    /\ lastOp.op = "clear"
    /\ lastOp.before.transcript # <<>>
    /\ lastOp.before.wordCount > 0
    /\ Len(lastOp.before.detectedLanguages) > 1
    /\ transcript = <<>>
    /\ detectedLanguages = <<"pt-BR">>

\* C8: without a platform recognizer every start() reports "unsupported" and
\* changes nothing else: no recognizer, no timer, recordingTime not reset,
\* isRecording still false.
C8_UnsupportedStartChangesNothing ==
    [][lastOp'.op = "start" /\ ~supported
         => /\ toast' = "Nao Suportado"
            /\ ~isRecording'
            /\ recognizers' = <<>>
            /\ timeTimers' = {} /\ audioTimers' = {}
            /\ UNCHANGED <<cells, refs, switchClosure, platform>>]_vars

\* a start() has been refused, and not as the first step of the session
C8_Witness ==
    /\ ~supported
    /\ lastOp.op = "start"
    /\ toast = "Nao Suportado"
    /\ steps >= 2
    /\ recognitionRef = 0

\* C9: a recognizer error event forces isRecording to false and is reported
\* to the user unless it is 'aborted'; a start() (after an error as at any
\* time the platform offers a recognizer) begins a new recognition, and the
\* session is recording once that recognizer reports it started.
C9_ErrorStopsAndSessionRestarts ==
    [][/\ lastOp'.op = "onerror"
          => /\ ~isRecording'
             /\ toast' = IF lastOp'.arg # "aborted" THEN "Erro na Gravacao"
                                                    ELSE "none"
       /\ lastOp'.op = "start" /\ supported
          => /\ recognitionRef' = lastOp'.rec
             /\ lastOp'.rec \notin DOMAIN recognizers
             /\ lastOp'.rec \in DOMAIN recognizers'
             /\ recognizers'[lastOp'.rec].status = "starting"
       /\ lastOp'.op = "onstart" => isRecording']_vars

\* recognizer 1 has failed, a new start() began recognizer 2, which reported
\* it started
C9_Witness ==
    /\ lastOp.op = "onstart"
    /\ lastOp.rec = 2
    /\ recognitionRef = 2
    /\ 1 \in DOMAIN recognizers
    /\ recognizers[1].status = "failed"
    /\ isRecording

\* C10: every recognizer that start() begins, the delayed restart of
\* switchLanguage included, has its language tag equal to the session's
\* currentLanguage at that moment.
C10_RecognizerLockedToCurrentLanguage ==
    [][lastOp'.op \in {"start", "restart"} /\ supported
         => recognizers'[lastOp'.rec].lang = currentLanguage]_vars

\* the session is recording and the timers its refs hold are running
TimersActive ==
    /\ timeIntervalRef # 0 /\ timeIntervalRef \in timeTimers
    /\ audioLevelIntervalRef # 0 /\ audioLevelIntervalRef \in audioTimers

\* C11: switchLanguage(code) sets currentLanguage to code and the displayed
\* language to the name of the code (the default name for a code that has
\* none); when the session is recording it stops the recognizer held and the
\* two timers held in the same step and schedules one restart, and when it
\* is not recording it stops and starts nothing; the restart begins a new
\* recognition with both timers, and what follows the restart without a
\* command (the end of the recognizer that was stopped, the start of the new
\* one) leaves both timers running, with the session recording once the new
\* recognizer has started.
C11_SwitchRestartsRecording ==
    [][/\ lastOp'.op = "switchLanguage"
          => /\ currentLanguage' = lastOp'.arg
             /\ detectedLanguage' =
                   IF lastOp'.arg = "en-US" THEN "English (US)"
                   ELSE IF lastOp'.arg = "es-ES" THEN "Espanol (ES)"
                   ELSE "Portugues (BR)"
             /\ IF isRecording
                THEN /\ recognitionRef # 0 /\ recognitionRef \in DOMAIN recognizers
                          => recognizers'[recognitionRef].stopped
                     /\ timeIntervalRef \notin timeTimers'
                     /\ audioLevelIntervalRef \notin audioTimers'
                     /\ Len(restartTimeouts') = Len(restartTimeouts) + 1
                ELSE UNCHANGED <<recognizers, nextId, timeTimers, audioTimers,
                                 restartTimeouts>>
       /\ lastOp'.op = "restart" /\ supported
          => /\ lastOp'.rec \in DOMAIN recognizers'
             /\ recognitionRef' = lastOp'.rec
             /\ TimersActive'
       /\ lastOp.op = "restart" /\ supported
          => /\ lastOp'.op = "onend" /\ lastOp'.rec # lastOp.rec
                => TimersActive'
             /\ lastOp'.op = "onstart" /\ lastOp'.rec = lastOp.rec
                => isRecording' /\ TimersActive']_vars

\* C12: toggleEnhancedMode() negates enhancedMode and leaves the transcript,
\* the counters, isRecording, the languages, the refs, the recognizers, the
\* timers and the requests as they were; its notification names the mode
\* the session is in after the step; a second call right after a first one
\* gives back the mode the first one found.
C12_ToggleFlipsOnlyEnhancedMode ==
    [][lastOp'.op = "toggleEnhancedMode"
         => /\ enhancedMode' = ~enhancedMode
            /\ UNCHANGED <<isRecording, transcript, detectedLanguage,
                           confidence, audioLevel, recordingTime, wordCount,
                           languageCount, currentLanguage, detectedLanguages,
                           refs, recognizers, nextId, timeTimers, audioTimers,
                           restartTimeouts, detectRequests, enhanceRequests>>
            /\ toast' = IF enhancedMode' THEN "Modo Avancado Ativado"
                                         ELSE "Modo Avancado Desativado"
            /\ lastOp.op = "toggleEnhancedMode"
                  => enhancedMode' = (lastOp.arg = "on")]_vars

\* during a recording the mode was switched off and on again
C12_Witness ==
    /\ lastOp.op = "toggleEnhancedMode"
    /\ lastOp.arg = "off"
    /\ enhancedMode
    /\ toast = "Modo Avancado Ativado"
    /\ isRecording
    /\ steps >= 4

\* the routes whose wrapper returns a confidence, with the default of each
ConfidenceDefault(route) ==
    IF route = "POST /api/ai/enhance" THEN 80 ELSE 50

\* C13: whatever the provider answers, the confidence that analyze,
\* detect-language and enhance return is a number from 0 to 1: an answer
\* above 1 gives 1, an answer below 0 gives 0, an answer without confidence
\* gives the default of the operation (0.5, 0.8 for enhance), and the value
\* returned after a failure is in the range too.
C13_ConfidenceInUnitRange ==
    exchange.route \in {"POST /api/ai/analyze", "POST /api/ai/detect-language",
                        "POST /api/ai/enhance"}
    /\ exchange.reply.calls > 0 /\ ~exchange.reply.outcome.raised
    => LET returned == exchange.reply.outcome.value.confidence
           upstream == exchange.upstream
           given == upstream.data.confidence
       IN  /\ returned.kind = "number"
           /\ returned.n >= 0 /\ returned.n <= 100
           /\ upstream.kind = "json" /\ given.kind = "number" /\ given.n > 100
                => returned.n = 100
           /\ upstream.kind = "json" /\ given.kind = "number" /\ given.n < 0
                => returned.n = 0
           /\ upstream.kind = "json" /\ given.kind = "undefined"
                => returned.n = ConfidenceDefault(exchange.route)

C15_EnhanceReturnsDefault ==
    exchange.route = "POST /api/ai/enhance" /\ exchange.reply.calls > 0
    => /\ ~exchange.reply.outcome.raised
       /\ exchange.upstream.kind \in {"malformed", "empty", "fails"}
            => exchange.reply.outcome.value =
                 [enhancedText |-> exchange.request.text,
                  corrections |-> Arr(<<>>), confidence |-> Num(50)]
       /\ exchange.upstream.kind = "json"
          /\ exchange.upstream.data.enhancedText.kind = "undefined"
            => exchange.reply.outcome.value.enhancedText = exchange.request.text

\* C16: when the call of the provider fails, analyze and summarize raise and
\* return nothing: the routes /api/ai/analyze and /api/ai/summary answer 500
\* with a message of failure and no body; the panel then notifies the
\* failure and displays the analysis it displayed before.
C16_FailurePropagates ==
    [][/\ exchange'.route \in {"POST /api/ai/analyze", "POST /api/ai/summary"}
          /\ exchange'.upstream.kind = "fails"
          => /\ exchange'.reply.outcome.raised
             /\ exchange'.reply.status = 500
             /\ exchange'.reply.message \in {"Falha ao analisar conteudo",
                                            "Falha ao gerar resumo"}
             /\ exchange'.reply.body = Undefined
       /\ analyzing # NoQuestion /\ analyzing' = NoQuestion
          /\ exchange'.reply.status = 500
          => /\ notice' = "Erro"
             /\ lastAnalysis' = lastAnalysis]_vars

\* an analysis is displayed, the provider failed on the next question, and
\* the panel shows the failure and still the analysis
C16_Witness ==
    /\ exchange.route = "POST /api/ai/analyze"
    /\ exchange.upstream.kind = "fails"
    /\ exchange.reply.status = 500
    /\ notice = "Erro"
    /\ lastAnalysis # NoAnalysis
    /\ analyzing = NoQuestion

\* C17: a request to /api/ai/analyze without transcription or without
\* question (absent or empty) is answered 400 and the provider is not
\* called; so is one to /api/ai/summary without transcription and one to
\* /api/ai/detect-language or /api/ai/enhance without text.
C17_MissingFieldIs400WithoutCall ==
    LET lacks(field) == ~Truthy(field)
        rejected == exchange.reply.status = 400 /\ exchange.reply.calls = 0
    IN  /\ exchange.route = "POST /api/ai/analyze"
           /\ (lacks(exchange.request.transcription)
               \/ lacks(exchange.request.question))
           => rejected
        /\ exchange.route = "POST /api/ai/summary"
           /\ lacks(exchange.request.transcription)
           => rejected
        /\ exchange.route \in {"POST /api/ai/detect-language",
                               "POST /api/ai/enhance"}
           /\ lacks(exchange.request.text)
           => rejected

\* a request to analyze with a transcription and an empty question
C17_Witness ==
    /\ exchange.route = "POST /api/ai/analyze"
    /\ exchange.request.transcription = Str("ola mundo")
    /\ exchange.request.question = Str("")
    /\ exchange.reply.status = 400
    /\ exchange.reply.calls = 0

SessionRoutes ==
    {"GET /api/sessions/:id", "PATCH /api/sessions/:id",
     "DELETE /api/sessions/:id"}

\* C18: GET, PATCH and DELETE of a session the store does not hold answer
\* 404 with the message "Sessao nao encontrada"; a failure of the store
\* answers 500 with another message; no 404 comes from a failure of the
\* store and no 500 from a missing session.
C18_MissingIs404FailureIs500 ==
    [][exchange'.route \in SessionRoutes
         => LET id == exchange'.request.id
                fault == exchange'.request.fault
                reply == exchange'.reply
            IN  /\ ~fault /\ id \notin DOMAIN sessions
                     => /\ reply.status = 404
                        /\ reply.message = "Sessao nao encontrada"
                /\ fault
                     => /\ reply.status = 500
                        /\ reply.message # "Sessao nao encontrada"
                /\ reply.status = 404 => ~fault /\ id \notin DOMAIN sessions
                /\ reply.status = 500 => fault]_vars

\* DELETE of a session the store does not hold, while it holds another one
C18_Witness ==
    /\ exchange.route = "DELETE /api/sessions/:id"
    /\ exchange.reply.status = 404
    /\ exchange.reply.message = "Sessao nao encontrada"
    /\ DOMAIN sessions # {}
    /\ exchange.request.id \notin DOMAIN sessions

\* C19: POST /api/sessions and POST /api/analyses with a body the schema
\* rejects answer 400 and leave the store as it was; whenever one of them
\* answers 400 the store is as it was.
C19_InvalidBodyIs400WithoutWrite ==
    [][exchange'.route \in {"POST /api/sessions", "POST /api/analyses"}
         => /\ exchange'.request.title.kind # "string"
                 => /\ exchange'.reply.status = 400
                    /\ UNCHANGED <<sessions, analyses>>
            /\ exchange'.reply.status = 400
                 => UNCHANGED <<sessions, analyses>>]_vars

\* a session was stored, then a body without title was rejected
C19_Witness ==
    /\ exchange.route = "POST /api/sessions"
    /\ exchange.request.title = Undefined
    /\ exchange.reply.status = 400
    /\ DOMAIN sessions = {1}
    /\ analyses = 0

\* C20: when the text has more English keywords than Portuguese ones and
\* more than Spanish ones, the heuristic sets the detected language to
\* English (US) with confidence 0.82, whatever the counts are; in the same
\* way Portuguese gives 0.85 and Spanish 0.79; the text "the and is to it
\* you that this" gives English (US) with 0.82.
C20_FixedConfidencePerLanguage ==
    [][lastOp'.op = "detectLanguageFromTextFallback"
         => \A words \in {SplitWs(ToLowerCase(lastOp'.final), <<>>)} :
            \A pt \in {Score(words, portugueseWords)} :
            \A en \in {Score(words, englishWords)} :
            \A es \in {Score(words, spanishWords)} :
                /\ en > pt /\ en > es
                     => detectedLanguage' = "English (US)" /\ confidence' = 82
                /\ pt > en /\ pt > es
                     => detectedLanguage' = "Portugues (BR)" /\ confidence' = 85
                /\ es > pt /\ es > en
                     => detectedLanguage' = "Espanol (ES)" /\ confidence' = 79
                /\ lastOp'.final = EnglishScenario
                     => detectedLanguage' = "English (US)" /\ confidence' = 82]_vars

\* the heuristic has been applied to the text of the scenario
C20_Witness ==
    /\ lastOp.op = "detectLanguageFromTextFallback"
    /\ lastOp.final = EnglishScenario
    /\ detectedLanguage = "English (US)"
    /\ confidence = 82

\* C21: when the highest keyword score of the text is shared by two or by
\* three languages (all scores zero included, and so the text made only of
\* the shared keyword 'que'), the heuristic leaves the detected language and
\* its confidence as they were before the call.
C21_TieLeavesDetectionUnchanged ==
    [][lastOp'.op = "detectLanguageFromTextFallback"
         => \A words \in {SplitWs(ToLowerCase(lastOp'.final), <<>>)} :
            \A pt \in {Score(words, portugueseWords)} :
            \A en \in {Score(words, englishWords)} :
            \A es \in {Score(words, spanishWords)} :
            \A top \in {CHOOSE m \in {pt, en, es} : m >= pt /\ m >= en /\ m >= es} :
                Cardinality({l \in {"pt", "en", "es"} :
                               (CASE l = "pt" -> pt [] l = "en" -> en
                                  [] OTHER -> es) = top}) >= 2
                  => UNCHANGED <<detectedLanguage, confidence>>]_vars

\* the heuristic has been applied to the text 'que' in a session whose
\* detection was not the initial one, and to a text with no keyword
C21_Witness ==
    /\ lastOp.op = "detectLanguageFromTextFallback"
    /\ lastOp.final \in {<<"q", "u", "e">>, <<"c", "a", "s", "a">>}
    /\ detectedLanguage = "English (US)"
    /\ confidence = 95

\* C22: when the AI model fails while the server serves a detection request
\* of the session, the detected language and the confidence of the session
\* afterwards are unchanged or are what the keyword heuristic gives for the
\* finalized segment of a request; the detected language is not the error
\* placeholder, and detectedLanguages is unchanged.
C22_ModelFailureDegradesSilently ==
    [][/\ lastOp'.op \in {"detectSuccess", "detectError"}
       /\ exchange' # exchange
       /\ exchange'.route = "POST /api/ai/detect-language"
       /\ exchange'.upstream = ProviderFails(NoDetection)
       => /\ \/ UNCHANGED <<detectedLanguage, confidence>>
             \/ \E i \in DOMAIN detectRequests :
                 \A words \in {SplitWs(ToLowerCase(detectRequests[i].text), <<>>)} :
                 \A pt \in {Score(words, portugueseWords)} :
                 \A en \in {Score(words, englishWords)} :
                 \A es \in {Score(words, spanishWords)} :
                    \/ pt > en /\ pt > es
                         /\ detectedLanguage' = "Portugues (BR)" /\ confidence' = 85
                    \/ en > pt /\ en > es
                         /\ detectedLanguage' = "English (US)" /\ confidence' = 82
                    \/ es > pt /\ es > en
                         /\ detectedLanguage' = "Espanol (ES)" /\ confidence' = 79
          /\ detectedLanguage' # "Erro na deteccao"
          /\ detectedLanguages' = detectedLanguages]_vars

\* the texts of the enhancement requests awaiting a response
PendingTexts(requests) == [i \in DOMAIN requests |-> requests[i].text]

\* C23: an enhancement request awaiting its response is never cancelled:
\* only the arrival of a response removes one, and stop(), clear() and later
\* recognizer events leave the requests issued before them in flight; the
\* response that the handler accepts replaces the whole transcript, whatever
\* happened since the request was issued (a stop(), a clear(), later
\* segments).
C23_InFlightEnhancementsNeverCancelled ==
    [][/\ lastOp'.op \notin {"enhanceSuccess", "enhanceError"}
          => /\ Len(enhanceRequests') >= Len(enhanceRequests)
             /\ SubSeq(PendingTexts(enhanceRequests'), 1, Len(enhanceRequests))
                  = PendingTexts(enhanceRequests)
       /\ lastOp'.op = "enhanceSuccess"
            /\ lastOp'.final # <<>> /\ lastOp'.final # lastOp'.interim
          => /\ transcript' = lastOp'.final
             /\ wordCount' = CountWords(lastOp'.final)]_vars

\* a response has changed the transcript after clear(): its handler had seen
\* the empty transcript clear() left, and the transcript is its text
C23_AfterClear ==
    /\ lastOp.op = "enhanceSuccess"
    /\ lastOp.interim = <<>>
    /\ lastOp.final # <<>>
    /\ transcript = lastOp.final

\* a response for a segment of more than 20 characters has replaced the
\* transcript "a" that a later result event had published
C23_LaterSegmentLost ==
    /\ lastOp.op = "enhanceSuccess"
    /\ lastOp.interim = ShortText
    /\ lastOp.final # <<>>
    /\ transcript = lastOp.final
    /\ transcript # ShortText

\* either execution of the claim has happened
C23_Witness == C23_AfterClear \/ C23_LaterSegmentLost

\* the number of tokens of a text: the positions where a character that is
\* no white space begins the text or follows white space
TokenCount(text) ==
    Cardinality({i \in DOMAIN text :
                   text[i] # " " /\ (i = 1 \/ text[i - 1] = " ")})

\* texts with white space at an end, doubled, and alone
SpacedTexts ==
    { <<>>, <<" ">>, <<" ", "a">>, <<"a", " ">>, <<"a", " ", " ", "b">>,
      <<" ", "a", " ", "b", " ">> }

\* C24: in every reachable state wordCount is the number of non-empty
\* tokens of the transcript that white space separates; the count the
\* session computes is that number also for texts with white space at an
\* end or doubled.
C24_WordCountMatchesTranscript ==
    /\ wordCount = TokenCount(transcript)
    /\ \A text \in SpacedTexts : CountWords(text) = TokenCount(text)

\* an accepted enhancement has replaced a transcript of several words by a
\* text of one word
C24_Witness ==
    /\ lastOp.op = "enhanceSuccess"
    /\ lastOp.final = CorrectedText
    /\ transcript = CorrectedText
    /\ TokenCount(lastOp.interim) > 1
    /\ wordCount = 1

\* C25: in every reachable state detectedLanguages holds no language code
\* twice and languageCount is the number of its elements.
C25_LanguagesDistinctAndCounted ==
    /\ \A i, j \in DOMAIN detectedLanguages :
          detectedLanguages[i] = detectedLanguages[j] => i = j
    /\ languageCount = Len(detectedLanguages)

\* the recognizers that were started and neither stopped nor failed
ActiveRecognizers ==
    {r \in DOMAIN recognizers :
        recognizers[r].status \in {"starting", "running"} /\ ~recognizers[r].stopped}

\* C26: at most one elapsed-time timer and at most one audio-level timer is
\* running, every running timer is the one the timer handle of the session
\* holds, and at most one recognizer is active.
C26_OneTimerOneRecognizer ==
    /\ Cardinality(timeTimers) <= 1
    /\ Cardinality(audioTimers) <= 1
    /\ timeTimers \subseteq {timeIntervalRef}
    /\ audioTimers \subseteq {audioLevelIntervalRef}
    /\ Cardinality(ActiveRecognizers) <= 1

\* C27: an end or error event of a recognizer that the session has stopped
\* and replaced (by stop() and a new start(), or by the restart of
\* switchLanguage; the session holds a newer recognizer) does not change
\* isRecording and cancels no timer.
C27_ReplacedRecognizerIsIgnored ==
    [][/\ lastOp'.op \in {"onend", "onerror"}
       /\ recognitionRef # 0
       /\ lastOp'.rec < recognitionRef
       /\ recognizers[lastOp'.rec].stopped
       => /\ isRecording' = isRecording
          /\ timeTimers' = timeTimers
          /\ audioTimers' = audioTimers]_vars

\* C28: once recognition has ended (by stop(), by an error or the end of the
\* recognizer the session holds), both timers are cancelled and audioLevel
\* is 0, and while no start() follows no timer callback changes
\* recordingTime.
C28_EndedRecognitionIsQuiet ==
    [][/\ \/ lastOp'.op = "stop"
          \/ lastOp'.op \in {"onend", "onerror"} /\ lastOp'.rec = recognitionRef
          => /\ timeTimers' = {}
             /\ audioTimers' = {}
             /\ audioLevel' = 0
       /\ /\ \/ lastOp.op = "stop"
             \/ lastOp.op \in {"onend", "onerror"} /\ lastOp.rec = recognitionRef
          /\ lastOp'.op \in {"tickTime", "tickAudio"}
          => UNCHANGED <<recordingTime, audioLevel>>]_vars

\* C29: currentLanguage changes only in a switchLanguage step; every other
\* step (recognizer events, detection responses and failures, the keyword
\* heuristic, clear(), stop(), toggleEnhancedMode()) leaves it unchanged.
C29_OnlySwitchChangesLanguage ==
    [][currentLanguage' # currentLanguage => lastOp'.op = "switchLanguage"]_vars

\* C30: for analyze, detect-language and enhance, a confidence of the
\* provider that is a number from 0 to 1, the ends included, is returned as
\* it is.
C30_InRangeConfidenceUnchanged ==
    /\ exchange.route \in {"POST /api/ai/analyze", "POST /api/ai/detect-language",
                           "POST /api/ai/enhance"}
    /\ exchange.reply.calls > 0
    /\ ~exchange.reply.outcome.raised
    /\ exchange.upstream.kind = "json"
    /\ exchange.upstream.data.confidence.kind = "number"
    /\ exchange.upstream.data.confidence.n \in 0..100
    => exchange.reply.outcome.value.confidence = exchange.upstream.data.confidence

====
